---- MODULE Spec2Model ----
(***************************************************************************)
(* Model of the TTS API server (index.js, firebase.js, tts.js).            *)
(*                                                                         *)
(* State: the Firestore conversion records, the Storage bucket, the clock  *)
(* read by Date.now(), and one record per HTTP request in flight or just   *)
(* answered.  Every await of a handler is a separate step, so requests     *)
(* interleave exactly where the event loop lets them.                      *)
(*                                                                         *)
(* Strings that are cut at '/' by the code are modelled as the sequence of *)
(* their '/'-separated segments (what split('/') returns); a segment is a  *)
(* sequence of slash-free pieces.  Texts are modelled by their length      *)
(* (String.length) and their number of non-whitespace characters, which    *)
(* is all that trim() and the length check read.                           *)
(***************************************************************************)
EXTENDS Integers, Sequences, FiniteSets, TLC

\* Bounds of the model: requests in flight at once and conversion records
\* ever written.
MaxInFlight == 2
MaxDocs == 2

\* index.js line 119: textContent.length > 5000
MaxTextLength == 5000

\* index.js line 32: fileSize: 10 * 1024 * 1024
FileSizeLimit == 10 * 1024 * 1024

VARIABLES records, blobs, nextDocId, clock, serverUp, req,
          written, responded, deleteStarted, deleted

vars == <<records, blobs, nextDocId, clock, serverUp, req,
          written, responded, deleteStarted, deleted>>

\* the state of the two stores and of the process
store == <<records, blobs, nextDocId>>

\* what has been observed of earlier requests: the records written (with the
\* names their artifacts were stored under), the success responses of POST
\* /convert, and the ids of the records for which a DELETE of their owner has
\* started, and for which such a DELETE was answered with success
history == <<written, responded, deleteStarted, deleted>>

Slots == 1..MaxInFlight

-----------------------------------------------------------------------------
(* Strings *)

\* undefined / null
Undefined == <<>>

\* a string without '/'
Lit(s) == <<<<s>>>>

\* a + b
Cat(a, b) == SubSeq(a, 1, Len(a) - 1) \o <<a[Len(a)] \o b[1]>> \o Tail(b)

\* a + '/' + b
Slash(a, b) == a \o b

\* !s for a string or undefined
Falsy(s) == s = Undefined \/ s = <<<<>>>>

\* s.split('/').pop()
SplitPop(s) == <<s[Len(s)]>>

\* userIds sent by clients: "u1" and "a/b/c" (under users/ a document path of
\* even length, which Firestore accepts)
PlainUsers == {Lit("u1")}

Users == PlainUsers \cup {<<<<"a">>, <<"b">>, <<"c">>>>}

\* index.js line 66: Math.random().toString(36).substring(2, 8).  Two calls of
\* generateFileName yield the same name when they read the same time and
\* draw the same digits: the model lets the clock stand still for that
Randoms == {"k3x9qa"}

\* index.js line 65: Date.now().  Only whether two generated names are equal
\* matters, so a request reads the time at which it entered its handler, and
\* the clock advances (or stands still) between the requests
Now(r) == r.now

\* firebase.js line 9
BucketName == "bustling-bot-464601-a9.firebasestorage.app"

\* index.js generateFileName
GenerateFileName(userId, type, now, random) ==
    Cat(Lit(type), Cat(Lit("_"), Cat(userId,
        Cat(Lit("_"), Cat(Lit(ToString(now)), Cat(Lit("_"), Lit(random)))))))

\* index.js line 99
StorageFileName(userId, inputType, now, random) ==
    Slash(Lit("uploads"),
          Cat(GenerateFileName(userId, "original", now, random),
              Cat(Lit("."), Lit(inputType))))

\* index.js line 126
AudioFileName(userId, now, random) ==
    Slash(Lit("audio"),
          Cat(GenerateFileName(userId, "audio", now, random), Lit(".mp3")))

\* firebase.js line 78
PublicUrl(fileName) ==
    <<<<"https:">>, <<>>, <<"storage.googleapis.com">>, <<BucketName>>>> \o fileName

-----------------------------------------------------------------------------
(* Texts *)

Text(len, nonws) == [len |-> len, nonws |-> nonws]

\* '' (also what an absent text field amounts to: both are falsy)
EmptyText == Text(0, 0)

\* the texts of the requests that exercise validation
Texts ==
    { EmptyText, Text(1, 0), Text(1, 1), Text(MaxTextLength, MaxTextLength - 1),
      Text(MaxTextLength + 1, MaxTextLength + 1) }

\* the texts of the requests that exercise the stores
StoreTexts == { Text(1, 1) }

\* !textContent.trim()
TrimIsEmpty(t) == t.nonws = 0

\* the length check with >= in place of >
TooLongInclusive(t) == t.len >= MaxTextLength

\* textContent.length > 5000
TooLong(t) == t.len > MaxTextLength

\* index.js lines 112-123: which check of content validation answers, if any
ValidateContent(t) ==
    IF TrimIsEmpty(t) THEN "empty"
    ELSE IF TooLong(t) THEN "tooLong"
    ELSE "ok"

-----------------------------------------------------------------------------
(* Uploaded files *)

AllowedTypes == {"application/pdf", "text/plain"}

MimeTypes == AllowedTypes \cup {"image/png"}

FileSizes == {1, FileSizeLimit + 1}

\* index.js line 93
InputTypeOf(mimetype) == IF mimetype = "application/pdf" THEN "pdf" ELSE "txt"

-----------------------------------------------------------------------------
(* Requests *)

NoRecord ==
    [id |-> 0, userId |-> Undefined, text |-> EmptyText, inputType |-> "",
     originalFileUrl |-> Undefined, audioUrl |-> Undefined, status |-> "",
     textLength |-> 0]

\* the body of a response that is no success response of POST /convert
NoBody ==
    [success |-> FALSE, conversionId |-> 0, audioUrl |-> Undefined,
     textLength |-> 0, inputType |-> ""]

IdleReq ==
    [kind |-> "idle", pc |-> "idle", userId |-> Undefined, status |-> 0,
     cause |-> "",
     \* POST /convert
     now |-> 0, mimetype |-> "", textContent |-> EmptyText, inputType |-> "",
     storageFileName |-> Undefined, originalFileUrl |-> Undefined,
     audioFileName |-> Undefined, audioUrl |-> Undefined,
     synthesized |-> FALSE, conversionId |-> 0, body |-> NoBody,
     escaped |-> FALSE,
     \* DELETE /conversions/:userId/:conversionId
     target |-> 0, conversion |-> NoRecord, filesToDelete |-> <<>>,
     attempted |-> 0, removed |-> {}, fileFailed |-> FALSE,
     afterDelete |-> FALSE, overlapped |-> FALSE,
     \* GET /conversions/:userId
     list |-> {}, expect |-> {}, gone |-> {}]

InFlight(r) == r.pc \notin {"idle", "done"}

\* a request takes the first slot that holds no request in flight
Free(i) ==
    /\ serverUp
    /\ ~InFlight(req[i])
    /\ \A j \in 1..(i - 1) : InFlight(req[j])

\* a POST /convert that may still write a record has a document id left
DocLeft ==
    nextDocId + Cardinality({j \in Slots : req[j].kind = "convert" /\ InFlight(req[j])})
        <= MaxDocs

Running(i, kind, pc) ==
    /\ serverUp
    /\ req[i].kind = kind
    /\ req[i].pc = pc

Init ==
    /\ records = {}
    /\ blobs = {}
    /\ nextDocId = 1
    /\ clock = 0
    /\ serverUp = TRUE
    /\ req = [i \in Slots |-> IdleReq]
    /\ written = {}
    /\ responded = {}
    /\ deleteStarted = {}
    /\ deleted = {}

-----------------------------------------------------------------------------
(* POST /convert *)

\* index.js lines 164-173: the finally block reads tempFilePath, which is
\* declared nowhere, so evaluating the condition throws a ReferenceError
FinallyThrows == TRUE

\* what the process does with the rejected promise of the async handler:
\* it survives (the framework forwards or ignores it) or exits (unhandled
\* rejection)
AfterRejection == {TRUE, FALSE}

\* a response sent from inside the handler, followed by the finally block
Respond(r, status, cause) ==
    [r EXCEPT !.pc = "done", !.status = status, !.cause = cause,
              !.escaped = FinallyThrows]

\* index.js lines 112-126: content validation, then the audio name
ValidateAndName(r, now, random) ==
    IF ValidateContent(r.textContent) # "ok"
    THEN Respond(r, 400, ValidateContent(r.textContent))
    ELSE [r EXCEPT !.pc = "synthesize",
                   !.audioFileName = AudioFileName(r.userId, now, random)]

\* index.js lines 29-42 and 282-296: the upload middleware refuses the file
\* and the error middleware answers; the handler does not run
ConvertUploadRejected(i) ==
    /\ Free(i)
    /\ \E mimetype \in MimeTypes, size \in FileSizes, userId \in Users :
         /\ mimetype \notin AllowedTypes \/ size > FileSizeLimit
         /\ req' = [req EXCEPT ![i] =
              [IdleReq EXCEPT !.kind = "convert", !.pc = "done",
                 !.userId = userId, !.mimetype = mimetype,
                 !.status = IF mimetype \notin AllowedTypes THEN 500 ELSE 400,
                 !.cause = IF mimetype \notin AllowedTypes
                           THEN "fileType" ELSE "fileSize"]]
    /\ UNCHANGED <<store, clock, serverUp, history>>

\* index.js lines 71-126: a request without a file enters the handler
ConvertText(i, in) ==
    /\ Free(i)
    /\ DocLeft
    /\ \E userId \in in.users, text \in in.texts, random \in Randoms,
          tick \in in.ticks :
         LET r0 == [IdleReq EXCEPT !.kind = "convert", !.userId = userId,
                                   !.now = clock]
             r1 == IF Falsy(userId) THEN Respond(r0, 400, "noUserId")
                   ELSE IF text = EmptyText THEN Respond(r0, 400, "noContent")
                   ELSE ValidateAndName(
                          [r0 EXCEPT !.textContent = text, !.inputType = "text"],
                          Now(r0), random)
         IN /\ req' = [req EXCEPT ![i] = r1]
            /\ serverUp' \in IF r1.escaped THEN AfterRejection ELSE {TRUE}
            /\ clock' = IF InFlight(r1) THEN clock + tick ELSE clock
    /\ UNCHANGED <<store, history>>

\* firebase.js uploadFile: the outcome of file.save and file.makePublic
UploadOutcomes == {"saveFailed", "makePublicFailed", "ok"}

\* the outcomes of a call to an upstream service (extraction, synthesis, the
\* bucket, the record store): every one of them, or success alone
AnyOutcome == UploadOutcomes \cup {"failed"}

Succeeds == {"ok"}

\* firebase.js lines 69-70: the bucket after file.save of an upload
UploadFile(bucket, fileName, outcome) ==
    IF outcome = "saveFailed" THEN bucket ELSE bucket \cup {fileName}

\* the bucket after an abort that deletes what the request had stored
BucketAfterRollback(bucket, r) ==
    bucket \ {r.storageFileName, r.audioFileName}

\* index.js lines 113-123 and 157-163: the bucket after a request aborts.  The
\* early returns and the catch block log and answer; neither calls deleteFile
BucketAfterAbort(bucket, r) == bucket

\* index.js lines 71-96: a request with an accepted file enters the handler
\* and extraction starts
ConvertFile(i, in) ==
    /\ Free(i)
    /\ DocLeft
    /\ \E userId \in in.users, mimetype \in in.types \cap AllowedTypes,
          tick \in in.ticks :
         LET r0 == [IdleReq EXCEPT !.kind = "convert", !.userId = userId,
                                   !.now = clock, !.mimetype = mimetype]
             r1 == IF Falsy(userId) THEN Respond(r0, 400, "noUserId")
                   ELSE [r0 EXCEPT !.pc = "extract",
                                   !.inputType = InputTypeOf(mimetype)]
         IN /\ req' = [req EXCEPT ![i] = r1]
            /\ serverUp' \in IF r1.escaped THEN AfterRejection ELSE {TRUE}
            /\ clock' = IF InFlight(r1) THEN clock + tick ELSE clock
    /\ UNCHANGED <<store, history>>

\* index.js lines 46-60 and 96-100: extraction ends; on success the original
\* file's name is generated and its upload starts
ExtractText(i, in) ==
    /\ Running(i, "convert", "extract")
    /\ LET r == req[i] IN
       \/ /\ "failed" \in in.outcomes
          /\ r.mimetype = "application/pdf"
          /\ req' = [req EXCEPT ![i] = Respond(r, 500, "extraction")]
          /\ serverUp' \in AfterRejection
       \/ /\ \E text \in in.texts, random \in Randoms :
               req' = [req EXCEPT ![i] =
                  [r EXCEPT !.pc = "uploadOriginal", !.textContent = text,
                     !.storageFileName =
                        StorageFileName(r.userId, r.inputType, Now(r), random)]]
          /\ UNCHANGED serverUp
    /\ UNCHANGED <<store, clock, history>>

\* index.js lines 100-126: the upload of the original file ends; on success
\* the content is validated and the audio name generated
UploadOriginal(i, in) ==
    /\ Running(i, "convert", "uploadOriginal")
    /\ \E outcome \in UploadOutcomes \cap in.outcomes, random \in Randoms :
         LET r  == req[i]
             r1 == IF outcome # "ok" THEN Respond(r, 500, "uploadOriginal")
                   ELSE ValidateAndName(
                          [r EXCEPT !.originalFileUrl = PublicUrl(r.storageFileName)],
                          Now(r), random)
         IN /\ blobs' = IF InFlight(r1)
                       THEN UploadFile(blobs, r.storageFileName, outcome)
                       ELSE BucketAfterAbort(
                              UploadFile(blobs, r.storageFileName, outcome), r)
            /\ req' = [req EXCEPT ![i] = r1]
            /\ serverUp' \in IF r1.escaped THEN AfterRejection ELSE {TRUE}
    /\ UNCHANGED <<records, nextDocId, clock, history>>

\* tts.js convertTextToAudio: client.synthesizeSpeech ends
Synthesize(i, in) ==
    /\ Running(i, "convert", "synthesize")
    /\ LET r == req[i] IN
       \/ /\ "failed" \in in.outcomes
          /\ req' = [req EXCEPT ![i] = Respond(r, 500, "synthesis")]
          /\ blobs' = BucketAfterAbort(blobs, r)
          /\ serverUp' \in AfterRejection
       \/ /\ req' = [req EXCEPT ![i] =
                  [r EXCEPT !.pc = "saveAudio", !.synthesized = TRUE]]
          /\ UNCHANGED <<blobs, serverUp>>
    /\ UNCHANGED <<records, nextDocId, clock, history>>

\* tts.js saveAudioFile: the upload of the audio ends; on success
\* saveConversion is called
SaveAudioFile(i, in) ==
    /\ Running(i, "convert", "saveAudio")
    /\ \E outcome \in UploadOutcomes \cap in.outcomes :
         LET r == req[i] IN
         /\ IF outcome # "ok"
            THEN /\ req' = [req EXCEPT ![i] = Respond(r, 500, "uploadAudio")]
                 /\ blobs' = BucketAfterAbort(
                                UploadFile(blobs, r.audioFileName, outcome), r)
                 /\ serverUp' \in AfterRejection
            ELSE /\ req' = [req EXCEPT ![i] =
                       [r EXCEPT !.pc = "saveConversion",
                                 !.audioUrl = PublicUrl(r.audioFileName)]]
                 /\ blobs' = UploadFile(blobs, r.audioFileName, outcome)
                 /\ UNCHANGED serverUp
    /\ UNCHANGED <<records, nextDocId, clock, history>>

\* the record built with the name of the audio file in place of its URL
ConversionDataFileName(r) ==
    [text |-> r.textContent, inputType |-> r.inputType,
     originalFileUrl |-> r.originalFileUrl, audioUrl |-> r.audioFileName,
     status |-> "completed", textLength |-> r.textContent.len]

\* index.js lines 132-141
ConversionData(r) ==
    [text |-> r.textContent, inputType |-> r.inputType,
     originalFileUrl |-> r.originalFileUrl, audioUrl |-> r.audioUrl,
     status |-> "completed", textLength |-> r.textContent.len]

\* firebase.js lines 20-26: the document written under users/{userId}/conversions
ConversionWithId(userId, data, id) ==
    [id |-> id, userId |-> userId, text |-> data.text,
     inputType |-> data.inputType, originalFileUrl |-> data.originalFileUrl,
     audioUrl |-> data.audioUrl, status |-> data.status,
     textLength |-> data.textLength]

\* firebase.js saveConversion: docRef.set ends
SaveConversion(i, in) ==
    /\ Running(i, "convert", "saveConversion")
    /\ LET r == req[i] IN
       \/ /\ "failed" \in in.outcomes
          /\ req' = [req EXCEPT ![i] = Respond(r, 500, "saveConversion")]
          /\ blobs' = BucketAfterAbort(blobs, r)
          /\ serverUp' \in AfterRejection
          /\ UNCHANGED <<records, nextDocId, written>>
       \/ /\ records' = records \cup
                 {ConversionWithId(r.userId, ConversionData(r), nextDocId)}
          /\ nextDocId' = nextDocId + 1
          /\ req' = [req EXCEPT ![i] =
                  [r EXCEPT !.pc = "respond", !.conversionId = nextDocId]]
          /\ written' = written \cup
                 {[id |-> nextDocId, userId |-> r.userId, audioUrl |-> r.audioUrl,
                   audioFileName |-> r.audioFileName,
                   storageFileName |-> r.storageFileName]}
          /\ UNCHANGED <<blobs, serverUp>>
    /\ UNCHANGED <<clock, responded, deleteStarted, deleted>>

\* the success response reporting the length of the trimmed text
SuccessBodyTrimmed(r) ==
    [success |-> TRUE, conversionId |-> r.conversionId, audioUrl |-> r.audioUrl,
     textLength |-> r.textContent.nonws, inputType |-> r.inputType]

\* the success response reporting the name of the audio file, not its URL
SuccessBodyFileName(r) ==
    [success |-> TRUE, conversionId |-> r.conversionId,
     audioUrl |-> r.audioFileName, textLength |-> r.textContent.len,
     inputType |-> r.inputType]

\* index.js lines 148-155
SuccessBody(r) ==
    [success |-> TRUE, conversionId |-> r.conversionId, audioUrl |-> r.audioUrl,
     textLength |-> r.textContent.len, inputType |-> r.inputType]

\* index.js lines 143-155 and 164-173: saveConversion has returned the id;
\* the success response is sent, then the finally block runs
ConvertRespond(i) ==
    /\ Running(i, "convert", "respond")
    /\ req' = [req EXCEPT ![i] =
          Respond([req[i] EXCEPT !.body = SuccessBody(req[i])], 200, "")]
    /\ responded' = responded \cup
          {[userId |-> req[i].userId, id |-> SuccessBody(req[i]).conversionId,
            audioUrl |-> SuccessBody(req[i]).audioUrl]}
    /\ serverUp' \in AfterRejection
    /\ UNCHANGED <<store, clock, written, deleteStarted, deleted>>

-----------------------------------------------------------------------------
(* GET /conversions/:userId and DELETE /conversions/:userId/:conversionId *)
(* The routes match only non-empty parameters, so the 400 answers of these *)
(* handlers (index.js lines 181-185 and 211-215) are never sent.           *)

\* a response of a handler without a finally block
Answer(r, status, cause) ==
    [r EXCEPT !.pc = "done", !.status = status, !.cause = cause]

\* firebase.js getConversions: the documents under users/{userId}/conversions
GetConversions(userId) == {c \in records : c.userId = userId}

\* the lookup taking whichever record comes first, whatever its id
FindFirst(conversions, conversionId) ==
    IF conversions # {} THEN CHOOSE c \in conversions : TRUE ELSE NoRecord

\* index.js line 219: conversions.find(c => c.id === conversionId)
Find(conversions, conversionId) ==
    IF \E c \in conversions : c.id = conversionId
    THEN CHOOSE c \in conversions : c.id = conversionId
    ELSE NoRecord

\* index.js lines 228-240
FilesToDelete(conversion) ==
    (IF ~Falsy(conversion.originalFileUrl)
     THEN <<Slash(Lit("uploads"), SplitPop(conversion.originalFileUrl))>>
     ELSE <<>>)
    \o
    (IF ~Falsy(conversion.audioUrl)
     THEN <<Slash(Lit("audio"), SplitPop(conversion.audioUrl))>>
     ELSE <<>>)

\* the deletion addressing the user's other documents, not the one named
DeleteConversionOthers(userId, conversionId) ==
    {c \in records : ~(c.userId = userId /\ c.id # conversionId)}

\* firebase.js lines 56-57: docRef.delete()
DeleteConversion(userId, conversionId) ==
    {c \in records : ~(c.userId = userId /\ c.id = conversionId)}

\* the ids a client may name: every id issued so far, and 0 for one never issued
KnownIds == 0..(nextDocId - 1)

\* conversionId is the id of a record once written for userId
Owns(userId, conversionId) ==
    \E w \in written : w.id = conversionId /\ w.userId = userId

\* index.js lines 177-187: a GET enters its handler
GetStart(i, in) ==
    /\ Free(i)
    /\ \E userId \in in.users :
         req' = [req EXCEPT ![i] =
            [IdleReq EXCEPT !.kind = "get", !.pc = "getConversions",
               !.userId = userId,
               !.expect = {[id |-> x.id, audioUrl |-> x.audioUrl] :
                             x \in {y \in responded : y.userId = userId}},
               !.gone = {w.id : w \in {x \in written :
                                          x.userId = userId /\ x.id \in deleted}}]]
    /\ UNCHANGED <<store, clock, serverUp, history>>

\* index.js lines 187-203: getConversions ends and the GET is answered
GetRespond(i) ==
    /\ Running(i, "get", "getConversions")
    /\ LET r == req[i] IN
       \/ req' = [req EXCEPT ![i] = Answer(r, 500, "getConversions")]
       \/ req' = [req EXCEPT ![i] =
             Answer([r EXCEPT !.list = GetConversions(r.userId)], 200, "")]
    /\ UNCHANGED <<store, clock, serverUp, history>>

\* index.js lines 207-218: a DELETE enters its handler
DeleteStart(i, in) ==
    /\ Free(i)
    /\ \E userId \in in.users, conversionId \in KnownIds :
         LET own == Owns(userId, conversionId) IN
         /\ req' = [req EXCEPT ![i] =
               [IdleReq EXCEPT !.kind = "delete", !.pc = "lookup",
                  !.userId = userId, !.target = conversionId,
                  !.afterDelete = (own /\ conversionId \in deleted),
                  !.overlapped =
                     \E j \in Slots : /\ req[j].kind = "delete"
                                      /\ InFlight(req[j])
                                      /\ req[j].userId = userId]]
         /\ deleteStarted' = IF own THEN deleteStarted \cup {conversionId}
                             ELSE deleteStarted
    /\ UNCHANGED <<store, clock, serverUp, written, responded, deleted>>

\* index.js lines 218-245: getConversions ends; the record is looked up and
\* the deletion of its first file starts
DeleteLookup(i) ==
    /\ Running(i, "delete", "lookup")
    /\ LET r == req[i]
           conversion == Find(GetConversions(r.userId), r.target)
           files == FilesToDelete(conversion)
       IN
       \/ req' = [req EXCEPT ![i] = Answer(r, 500, "getConversions")]
       \/ req' = [req EXCEPT ![i] =
             IF conversion = NoRecord THEN Answer(r, 404, "notFound")
             ELSE [r EXCEPT !.conversion = conversion, !.filesToDelete = files,
                            !.pc = IF files = <<>> THEN "deleteConversion"
                                   ELSE "deleteFile"]]
    /\ UNCHANGED <<store, clock, serverUp, history>>

\* index.js lines 243-250: the step of the loop over filesToDelete
NextFile(r) ==
    IF r.attempted + 1 = Len(r.filesToDelete) THEN "deleteConversion"
    ELSE "deleteFile"

\* the loop without its try/catch: the error reaches the handler's catch
AfterFileErrorAborts(r) ==
    Answer([r EXCEPT !.fileFailed = TRUE], 500, "deleteFile")

\* index.js lines 246-249: deleteFile threw; the error is logged and the loop
\* goes on
AfterFileError(r) ==
    [r EXCEPT !.attempted = r.attempted + 1, !.pc = NextFile(r),
              !.fileFailed = TRUE]

\* firebase.js deleteFile and index.js lines 243-253: file.delete() ends
DeleteFileDone(i) ==
    /\ Running(i, "delete", "deleteFile")
    /\ LET r == req[i]
           fileName == r.filesToDelete[r.attempted + 1]
       IN
       \/ /\ fileName \in blobs
          /\ blobs' = blobs \ {fileName}
          /\ req' = [req EXCEPT ![i] =
                [r EXCEPT !.attempted = r.attempted + 1, !.pc = NextFile(r),
                          !.removed = r.removed \cup {fileName}]]
       \/ /\ UNCHANGED blobs
          /\ req' = [req EXCEPT ![i] = AfterFileError(r)]
    /\ UNCHANGED <<records, nextDocId, clock, serverUp, history>>

\* firebase.js deleteConversion and index.js lines 253-269: docRef.delete()
\* ends and the DELETE is answered
DeleteRespond(i) ==
    /\ Running(i, "delete", "deleteConversion")
    /\ LET r == req[i] IN
       \/ /\ req' = [req EXCEPT ![i] = Answer(r, 500, "deleteConversion")]
          /\ UNCHANGED <<records, deleted>>
       \/ /\ records' = DeleteConversion(r.userId, r.target)
          /\ req' = [req EXCEPT ![i] = Answer(r, 200, "")]
          /\ deleted' = deleted \cup {r.target}
    /\ UNCHANGED <<blobs, nextDocId, clock, serverUp, written, responded,
                   deleteStarted>>

-----------------------------------------------------------------------------
(* Specifications *)

\* what the requests of a specification are drawn from: the userIds, the
\* media types of the files uploaded, the texts sent or extracted, the
\* outcomes of the upstream calls of POST /convert, and by how much the clock
\* advances after a POST /convert enters

\* POST /convert with every input and every outcome of the upstream services
EveryInput ==
    [users |-> Users \cup {Undefined}, types |-> MimeTypes, texts |-> Texts,
     outcomes |-> AnyOutcome, ticks |-> {0}]

\* requests of every user that fill and empty the stores; generated names
\* may collide
EveryUser ==
    [users |-> Users, types |-> MimeTypes, texts |-> StoreTexts,
     outcomes |-> Succeeds, ticks |-> {0, 1}]

\* requests of one user that fill and empty the stores, with names that
\* do not collide
OneUser ==
    [users |-> PlainUsers, types |-> {"application/pdf"}, texts |-> StoreTexts,
     outcomes |-> Succeeds, ticks |-> {1}]

\* POST /convert, one request at a time
NextConvert ==
    \/ ConvertUploadRejected(1)
    \/ ConvertText(1, EveryInput)
    \/ ConvertFile(1, EveryInput)
    \/ ExtractText(1, EveryInput)
    \/ UploadOriginal(1, EveryInput)
    \/ Synthesize(1, EveryInput)
    \/ SaveAudioFile(1, EveryInput)
    \/ SaveConversion(1, EveryInput)
    \/ ConvertRespond(1)

SpecConvert == Init /\ [][NextConvert]_vars

\* every kind of request, one request at a time
NextSequential ==
    \/ ConvertText(1, EveryUser)
    \/ ConvertFile(1, EveryUser)
    \/ ExtractText(1, EveryUser)
    \/ UploadOriginal(1, EveryUser)
    \/ Synthesize(1, EveryUser)
    \/ SaveAudioFile(1, EveryUser)
    \/ SaveConversion(1, EveryUser)
    \/ ConvertRespond(1)
    \/ GetStart(1, EveryUser)
    \/ GetRespond(1)
    \/ DeleteStart(1, EveryUser)
    \/ DeleteLookup(1)
    \/ DeleteFileDone(1)
    \/ DeleteRespond(1)

SpecSequential == Init /\ [][NextSequential]_vars

\* every kind of request, concurrently
Next ==
    \E i \in Slots :
        \/ ConvertText(i, OneUser)
        \/ ConvertFile(i, OneUser)
        \/ ExtractText(i, OneUser)
        \/ UploadOriginal(i, OneUser)
        \/ Synthesize(i, OneUser)
        \/ SaveAudioFile(i, OneUser)
        \/ SaveConversion(i, OneUser)
        \/ ConvertRespond(i)
        \/ GetStart(i, OneUser)
        \/ GetRespond(i)
        \/ DeleteStart(i, OneUser)
        \/ DeleteLookup(i)
        \/ DeleteFileDone(i)
        \/ DeleteRespond(i)

Spec == Init /\ [][Next]_vars

-----------------------------------------------------------------------------
(* Claims about POST /convert, checked under SpecConvert *)

Converts == {req[i] : i \in {j \in Slots : req[j].kind = "convert"}}

Answered(r) == r.pc = "done"

\* why a request was refused for what it sent, and why for what an upstream
\* service did
ValidationCauses ==
    {"noUserId", "noContent", "empty", "tooLong", "fileType", "fileSize"}

UpstreamCauses ==
    {"extraction", "uploadOriginal", "synthesis", "uploadAudio", "saveConversion"}

\* C5: every validation failure of POST /convert (missing userId, neither file
\* nor text, empty content, content over 5000 characters, a file that is neither
\* PDF nor plain text, a file over 10MB) is answered with 400, and 500 is used
\* only for failures of the upstream services.
C5_ValidationIs400 ==
    \A r \in Converts :
        Answered(r) =>
            /\ r.cause \in ValidationCauses => r.status = 400
            /\ r.status = 500 => r.cause \in UpstreamCauses

\* a request with a userId and inline text of 1 to 5000 characters, no file
\* (inputType is "text" exactly for the requests that took the inline branch)
InlineInRange(r) ==
    /\ ~Falsy(r.userId)
    /\ r.inputType = "text"
    /\ r.textContent.len >= 1
    /\ r.textContent.len <= 5000

\* synthesis, audio storage and record storage succeeded for the request
UpstreamSucceeded(r) == r.cause \notin UpstreamCauses

SuccessAsClaimed(r) ==
    /\ r.status = 200
    /\ r.body.success
    /\ ~Falsy(r.body.audioUrl)
    /\ r.body.inputType = "text"
    /\ r.body.textLength = r.textContent.len

\* C6 as stated: every request with a userId and inline text of 1 to 5000
\* characters, whose synthesis, audio storage and record storage succeed, is
\* answered success: true with a non-empty audioUrl, inputType 'text' and
\* textLength equal to the length of the text.
C6_AsStated ==
    \A r \in Converts :
        (Answered(r) /\ InlineInRange(r) /\ UpstreamSucceeded(r))
            => SuccessAsClaimed(r)

\* C6 amended: the same for inline text of 1 to 5000 characters that is not
\* all whitespace.
C6_InlineTextSucceeds ==
    \A r \in Converts :
        (Answered(r) /\ InlineInRange(r) /\ r.textContent.nonws > 0
           /\ UpstreamSucceeded(r))
            => SuccessAsClaimed(r)

C6_Witness ==
    \E r \in Converts :
        /\ Answered(r) /\ InlineInRange(r) /\ r.status = 200
        /\ r.textContent.len = 5000
        /\ r.body.textLength = 5000

\* the request acquired its text: inline, or extracted from a file whose
\* original was then stored
Acquired(r) ==
    \/ r.inputType = "text"
    \/ r.inputType \in {"pdf", "txt"} /\ ~Falsy(r.originalFileUrl)

RejectedForContent(r) ==
    Answered(r) /\ r.status = 400 /\ r.cause \in {"empty", "tooLong"}

\* C7: content validation is applied to the acquired text, inline or extracted,
\* and rejects with 400 exactly when the text is all whitespace or longer than
\* 5000 characters (5001 is rejected, 5000 with a non-whitespace character is
\* accepted); a rejected request never reaches synthesis, stores no audio
\* artifact and writes no record.
C7_ContentValidation ==
    \A r \in Converts :
        /\ Acquired(r) =>
              (RejectedForContent(r)
                 <=> (r.textContent.nonws = 0 \/ r.textContent.len > 5000))
        /\ RejectedForContent(r) =>
              /\ ~r.synthesized
              /\ Falsy(r.audioUrl)
              /\ r.conversionId = 0
              /\ \A w \in written : w.audioFileName # r.audioFileName
              /\ \A n \in blobs : n # r.audioFileName

C7_Witness ==
    \E r \in Converts :
        /\ RejectedForContent(r)
        /\ r.inputType = "pdf"
        /\ r.textContent.len = 5001

\* C8: every record in the record store was written by one write made after
\* text acquisition, content validation, synthesis and audio storage of its
\* request succeeded: it has status 'completed', a non-null audioUrl equal to
\* the URL the audio upload returned, and textLength equal to the length of its
\* text; a request that is rejected or fails writes no record.
C8_RecordsAreComplete ==
    /\ \A c \in records :
          /\ c.status = "completed"
          /\ ~Falsy(c.audioUrl)
          /\ c.textLength = c.text.len
          /\ c.text.nonws > 0 /\ c.text.len <= 5000
          /\ \E w \in written :
                /\ w.id = c.id
                /\ w.userId = c.userId
                /\ c.audioUrl = w.audioUrl
                /\ w.audioFileName \in blobs
          /\ Cardinality({d \in records : d.id = c.id}) = 1
    /\ Cardinality(written) = nextDocId - 1
    /\ \A r \in Converts :
          /\ r.conversionId # 0 =>
                /\ r.synthesized
                /\ ~Falsy(r.audioUrl)
                /\ \E w \in written : w.id = r.conversionId /\ w.audioUrl = r.audioUrl
          /\ (Answered(r) /\ r.status \in {400, 500}) => r.conversionId = 0

C8_Witness ==
    \E c \in records : c.inputType = "pdf" /\ c.textLength = 5000

\* C9: every POST /convert, on every path (success, 400, 500), runs to
\* completion with one response sent and with no exception escaping the
\* handler, its finally block included, so that the server stays able to
\* handle later requests.
C9_NothingEscapes ==
    /\ serverUp
    /\ \A r \in Converts : Answered(r) => ~r.escaped

\* the artifacts a request has stored and made public: the original file once
\* its URL is known, the audio once its URL is known
StoredBy(r) ==
    (IF Falsy(r.originalFileUrl) THEN {} ELSE {r.storageFileName})
    \cup (IF Falsy(r.audioUrl) THEN {} ELSE {r.audioFileName})

\* the step in which the POST /convert of slot i ends without success
AbortsAt(i) ==
    /\ req[i].kind = "convert"
    /\ InFlight(req[i])
    /\ req'[i].pc = "done"
    /\ ~req'[i].body.success

\* C11: POST /convert never compensates: whenever a request aborts after it
\* has stored an artifact (the record write fails after the audio upload, or
\* synthesis or the audio upload fails or content validation rejects the text
\* after the original file was stored under uploads/), the request ends with
\* an error response, no record is written, and every artifact stored earlier
\* in the request remains in the blob store: the aborting step removes
\* nothing from the bucket.
C11_NoCompensation ==
    [][\A i \in Slots :
          (AbortsAt(i) /\ StoredBy(req'[i]) # {}) =>
              /\ req'[i].status \in {400, 500}
              /\ req'[i].conversionId = 0
              /\ records' = records
              /\ written' = written
              /\ StoredBy(req'[i]) \subseteq blobs'
              /\ blobs \subseteq blobs']_vars

C11_Witness ==
    \E r \in Converts :
        /\ Answered(r) /\ r.status = 500 /\ r.cause = "saveConversion"
        /\ r.inputType = "pdf"
        /\ Cardinality(StoredBy(r)) = 2
        /\ StoredBy(r) \subseteq blobs
        /\ r.conversionId = 0

-----------------------------------------------------------------------------
(* Claims about the stores under GET and DELETE *)

Gets == {req[i] : i \in {j \in Slots : req[j].kind = "get"}}

Deletes == {req[i] : i \in {j \in Slots : req[j].kind = "delete"}}

Stored(conversionId) == \E c \in records : c.id = conversionId

\* C1: after a POST /convert of user U answered with success, conversionId C
\* and audioUrl A, and as long as no DELETE for (U, C) has run, every later GET
\* /conversions/U lists a record with id C and audioUrl A.  (expect holds the
\* success responses sent to U before the GET started; a GET whose listing
\* fails is answered 500 and lists nothing.)
C1_ListedAfterConvert ==
    \A g \in Gets :
        (Answered(g) /\ g.status = 200) =>
            \A e \in g.expect :
                e.id \notin deleteStarted =>
                    \E c \in g.list : c.id = e.id /\ c.audioUrl = e.audioUrl

C1_Witness ==
    \E g \in Gets :
        /\ Answered(g) /\ g.status = 200
        /\ \E e \in g.expect :
              /\ e.id \notin deleteStarted
              /\ \E c \in g.list : c.id = e.id /\ c.audioUrl = e.audioUrl

\* C2: after a DELETE /conversions/U/C answered with success, no later GET
\* /conversions/U lists a record with id C, and a later DELETE /conversions/U/C
\* is answered 404.  (gone and afterDelete are what had been deleted with
\* success when the request started; a DELETE whose lookup fails is answered
\* 500 before it can tell.)
C2_GoneAfterDelete ==
    /\ \A g \in Gets :
          (Answered(g) /\ g.status = 200) =>
              \A c \in g.list : c.id \notin g.gone
    /\ \A d \in Deletes :
          (Answered(d) /\ d.afterDelete) =>
              (d.status = 404 \/ d.cause = "getConversions")

C2_Witness ==
    /\ \E g \in Gets : Answered(g) /\ g.status = 200 /\ g.gone # {}
    /\ \E d \in Deletes : Answered(d) /\ d.afterDelete /\ d.status = 404

\* C3: in a DELETE for an existing record, a failure of deleteFile for any of
\* its artifacts never keeps the record from being deleted: the remaining
\* artifacts are still attempted, the record is removed and the answer is 200.
\* (The deletion of the record can fail by itself, which is answered 500.)
C3_FileErrorsSwallowed ==
    \A d \in Deletes :
        d.fileFailed =>
            /\ d.pc \in {"deleteFile", "deleteConversion", "done"}
            /\ d.pc # "deleteFile" => d.attempted = Len(d.filesToDelete)
            /\ Answered(d) =>
                  \/ d.cause = "deleteConversion"
                  \/ /\ d.status = 200
                     /\ ~Stored(d.target)
                     /\ d.target \in deleted

C3_Witness ==
    \E d \in Deletes :
        /\ Answered(d) /\ d.status = 200
        /\ d.fileFailed
        /\ d.removed # {}
        /\ Len(d.filesToDelete) = 2
        /\ d.filesToDelete[1] \notin d.removed

\* the names under which POST /convert stored the artifacts of a record
StoredNames(w) ==
    {w.audioFileName} \cup
    (IF Falsy(w.storageFileName) THEN {} ELSE {w.storageFileName})

\* the names DELETE derives from a record's URLs
Range(seq) == {seq[k] : k \in 1..Len(seq)}

\* C4: for every record created by POST /convert and every userId, the names
\* DELETE derives from the stored audioUrl and originalFileUrl are the names
\* under which convert stored the artifacts, so that after a successful DELETE
\* in which the blob store does not fail neither artifact of the record is
\* left in the blob store.
C4_CascadeReachesArtifacts ==
    /\ \A c \in records : \A w \in written :
          w.id = c.id => Range(FilesToDelete(c)) = StoredNames(w)
    /\ \A d \in Deletes :
          (Answered(d) /\ d.status = 200 /\ ~d.fileFailed) =>
              \A w \in written :
                  w.id = d.target => StoredNames(w) \cap blobs = {}

\* the last segment of a URL, under the folder given
Under(folder, url) == <<<<folder>>, url[Len(url)]>>

\* the names derived from the URLs of record c
DerivedNames(c) ==
    (IF c.originalFileUrl = Undefined THEN {}
     ELSE {Under("uploads", c.originalFileUrl)})
    \cup {Under("audio", c.audioUrl)}

\* C10: for any interleaving of two concurrent DELETEs of one user for two
\* different existing conversion ids, both are answered with success, both
\* records are removed, each request deletes only the artifacts derived from
\* its own record's URLs, and no other record or artifact of the user is
\* removed.  (The deletion of a record can fail by itself, which is answered
\* 500.)
C10_ConcurrentDeletes ==
    /\ \A i, j \in Slots :
          LET a == req[i]
              b == req[j]
          IN (/\ i # j
              /\ a.kind = "delete" /\ b.kind = "delete"
              /\ a.userId = b.userId
              /\ a.target # b.target
              /\ a.conversion # NoRecord /\ b.conversion # NoRecord
              /\ Answered(a) /\ Answered(b)
              /\ a.cause # "deleteConversion" /\ b.cause # "deleteConversion")
             => /\ a.status = 200 /\ b.status = 200
                /\ ~Stored(a.target) /\ ~Stored(b.target)
    /\ \A d \in Deletes :
          d.conversion # NoRecord =>
              /\ d.conversion.id = d.target
              /\ d.conversion.userId = d.userId
              /\ d.removed \subseteq DerivedNames(d.conversion)
    /\ \A w \in written :
          /\ ~Stored(w.id) => w.id \in deleted
          /\ ~(StoredNames(w) \subseteq blobs) => w.id \in deleteStarted
    /\ \A d \in Deletes :
          (Answered(d) /\ d.status = 404 /\ Owns(d.userId, d.target))
              => d.target \in deleted

C10_Witness ==
    \E i, j \in Slots :
        /\ i # j
        /\ req[i].kind = "delete" /\ req[j].kind = "delete"
        /\ req[i].target # req[j].target
        /\ Answered(req[i]) /\ req[i].status = 200 /\ req[i].removed # {}
        /\ Answered(req[j]) /\ req[j].status = 200 /\ req[j].removed # {}
        /\ req[j].overlapped
        /\ ~Stored(req[i].target) /\ ~Stored(req[j].target)

====
